---- MODULE Spec2Model ----
(***************************************************************************)
(* The game-state reducer of the falling-block game: the scan over the     *)
(* merged stream of key and timer events (main), the action handlers       *)
(* (state), the grid and collision helpers (utils) and the piece generator *)
(* (types).  Grids and shapes are JavaScript arrays; here they are         *)
(* sequences, so JavaScript index i is index i + 1.                        *)
(***************************************************************************)
EXTENDS Integers, Sequences, FiniteSets, TLC

\* ------------------------------------------------------------- constants

CANVAS_WIDTH == 200
CANVAS_HEIGHT == 400
TICK_RATE_MS == 500
GRID_WIDTH == 10
GRID_HEIGHT == 20
Block_WIDTH == CANVAS_WIDTH \div GRID_WIDTH
Block_HEIGHT == CANVAS_HEIGHT \div GRID_HEIGHT

Bomb == "Bomb"

\* A property that a JavaScript object does not carry: the colour of a cell
\* built as { value: 0 }, a handler's parameter that the caller left out.
undefined == "undefined"

\* ---------------------------------------------------------------- bounds

\* The longest run of arbitrary events explored from a point of Playthrough.
MaxDetour == 3

\* The scores and the points of one settle that updateLevelAndTickRate is
\* called with.
MaxScore == 100
MaxPoints == 5

\* How many rows at the bottom of a grid passed to clearedGridAndPoints are
\* varied; the rows above them are empty.
MaxClearRows == 5

\* How many rows at the bottom of a grid passed to findDropPosition and
\* isValidPosition are varied.
MaxRows == 3

\* The largest id getRandomTetrimono is called with.
MaxId == 200

\* The most rows and the most columns of a shape passed to
\* rotateShapeClockwise.
MaxSide == 3

\* The milliseconds that pass in one step of waiting where time is kept.
TimeStep == 100

\* ----------------------------------------------------------------- utils

Abs(n) == IF n < 0 THEN -n ELSE n

Min(a, b) == IF a < b THEN a ELSE b

\* rotateShapeClockwise, but the rows are not reversed: the transpose
rotateShapeClockwise_Transposed(shape) ==
    [col \in 1..Len(shape[1]) |->
        [i \in 1..Len(shape) |-> shape[i][col]]]

rotateShapeClockwise(shape) ==
    [col \in 1..Len(shape[1]) |->
        [i \in 1..Len(shape) |-> shape[Len(shape) + 1 - i][col]]]

isOffScreen(x, y, width, height) ==
    x < 0 \/ x + width > CANVAS_WIDTH \/ y + height > CANVAS_HEIGHT

\* coord / blockSize; every coordinate of the game is a multiple of blockSize
toGridCoordinates(coord, blockSize) == coord \div blockSize

shapeAndGridCoincide(shape, grid, x, y) ==
    \E rowIndex \in 0..(Len(shape) - 1) :
        \E cellIndex \in 0..(Len(shape[rowIndex + 1]) - 1) :
            /\ shape[rowIndex + 1][cellIndex + 1] = 1
            /\ grid[y + rowIndex + 1][x + cellIndex + 1].value = 1

isValidPosition(x, y, shape, grid) ==
    IF Len(shape) = 0
    THEN FALSE
    ELSE /\ ~isOffScreen(x, y, Len(shape[1]) * Block_WIDTH, Len(shape) * Block_HEIGHT)
         /\ ~shapeAndGridCoincide(shape, grid, toGridCoordinates(x, Block_WIDTH),
                                  toGridCoordinates(y, Block_HEIGHT))

isRowFilled(row) == \A c \in 1..Len(row) : row[c].value # 0

addTetrominoToGrid(grid, x, y, shape, color) ==
    [r \in 1..Len(grid) |->
        LET rowIndex == r - 1 IN
        IF rowIndex >= y /\ rowIndex < y + Len(shape)
        THEN [c \in 1..Len(grid[r]) |->
                LET colIndex == c - 1 IN
                IF /\ colIndex >= x
                   /\ colIndex < x + Len(shape[rowIndex - y + 1])
                   /\ shape[rowIndex - y + 1][colIndex - x + 1] = 1
                THEN [color |-> color, value |-> 1]
                ELSE grid[r][c]]
        ELSE grid[r]]

\* increments.reduce(...): n increments of Block.HEIGHT still to try from accY
RECURSIVE dropReduce(_, _, _, _, _)
dropReduce(n, accY, x, shape, grid) ==
    IF n = 0
    THEN accY
    ELSE LET nextY == accY + Block_HEIGHT IN
         dropReduce(n - 1,
                    IF isValidPosition(x, nextY, shape, grid) THEN nextY ELSE accY,
                    x, shape, grid)

\* findDropPosition, but the search starts from the top of the grid
findDropPosition_FromTop(grid, x, y, shape) ==
    dropReduce(400 \div Block_HEIGHT, 0, x, shape, grid) \div Block_HEIGHT

findDropPosition(grid, x, y, shape) ==
    dropReduce((400 - y) \div Block_HEIGHT, y, x, shape, grid) \div Block_HEIGHT

\* ----------------------------------------------------------------- types

\* RNG.m = 0x80000000 = 2^15 * 2^16; hash is computed in two 16-bit limbs so
\* that no intermediate value leaves the 32-bit range.
RNG_a == 1103515245
RNG_c == 12345
Limb == 2 ^ 16
RNG_m_high == 2 ^ 15

hash(seed) ==
    LET low == (RNG_a % Limb) * seed + RNG_c
        high == (RNG_a \div Limb) * seed + (low \div Limb)
    IN (high % RNG_m_high) * Limb + (low % Limb)

modulus(h) == h % 8

baseTetromino == [id |-> 0, y |-> 0]

tetrominoShapes(kind) ==
    CASE kind = "cube" ->
           [id |-> baseTetromino.id, y |-> baseTetromino.y, type |-> "cube",
            shape |-> <<<<1, 1>>, <<1, 1>>>>, color |-> "blue", x |-> Block_WIDTH * 4]
      [] kind = "line" ->
           [id |-> baseTetromino.id, y |-> baseTetromino.y, type |-> "line",
            shape |-> <<<<1, 1, 1, 1>>>>, color |-> "cyan", x |-> Block_WIDTH * 3]
      [] kind = "tee" ->
           [id |-> baseTetromino.id, y |-> baseTetromino.y, type |-> "tee",
            shape |-> <<<<0, 1, 0>>, <<1, 1, 1>>>>, color |-> "purple", x |-> Block_WIDTH * 4]
      [] kind = "lShape" ->
           [id |-> baseTetromino.id, y |-> baseTetromino.y, type |-> "lShape",
            shape |-> <<<<1, 0>>, <<1, 0>>, <<1, 1>>>>, color |-> "orange", x |-> Block_WIDTH * 4]
      [] kind = "reverseLShape" ->
           [id |-> baseTetromino.id, y |-> baseTetromino.y, type |-> "reverseLShape",
            shape |-> <<<<0, 1>>, <<0, 1>>, <<1, 1>>>>, color |-> "red", x |-> Block_WIDTH * 4]
      [] kind = "zShape" ->
           [id |-> baseTetromino.id, y |-> baseTetromino.y, type |-> "zShape",
            shape |-> <<<<1, 1, 0>>, <<0, 1, 1>>>>, color |-> "yellow", x |-> Block_WIDTH * 4]
      [] kind = "reverseZShape" ->
           [id |-> baseTetromino.id, y |-> baseTetromino.y, type |-> "reverseZShape",
            shape |-> <<<<0, 1, 1>>, <<1, 1, 0>>>>, color |-> "green", x |-> Block_WIDTH * 4]
      [] kind = Bomb ->
           [id |-> baseTetromino.id, y |-> baseTetromino.y, type |-> Bomb,
            shape |-> <<<<1>>>>, color |-> "black", x |-> Block_WIDTH * 5]
      [] kind = "null" ->
           [id |-> baseTetromino.id, y |-> baseTetromino.y, type |-> "cube",
            shape |-> <<>>, color |-> "black", x |-> Block_WIDTH * 5]

\* keys 0..7 of the source are indices 1..8 here
tetrominoMapping ==
    <<"cube", "line", "tee", "lShape", "reverseLShape", "zShape", "reverseZShape", Bomb>>

\* getRandomTetrimono, but the id itself is the seed
getRandomTetrimono_SeedIsId(id) ==
    LET seed == id
        hashValue == hash(seed)
        numberBetween0And7 == modulus(hashValue)
        tetromino == tetrominoShapes(tetrominoMapping[numberBetween0And7 + 1])
    IN [tetromino EXCEPT !.id = id]

getRandomTetrimono(id) ==
    LET seed == 12345 + id
        hashValue == hash(seed)
        numberBetween0And7 == modulus(hashValue)
        tetromino == tetrominoShapes(tetrominoMapping[numberBetween0And7 + 1])
    IN [tetromino EXCEPT !.id = id]

\* new Array(20).fill(0).map(() => new Array(10).fill({ value: 0 }))
emptyGrid == [r \in 1..20 |-> [c \in 1..10 |-> [color |-> undefined, value |-> 0]]]

initialState ==
    [gameEnd |-> FALSE,
     currentTetromino |-> getRandomTetrimono(1),
     nextTetromino |-> getRandomTetrimono(2),
     grid |-> emptyGrid,
     score |-> 0,
     level |-> 1,
     highScore |-> 0,
     tickRate |-> TICK_RATE_MS]

\* ------------------------------------------------------------ observable

\* The state changes the event stream carries.  Only a Move has the fields x
\* and y; a timer value is none of the four classes.
Space == [kind |-> "Space"]
Rotate == [kind |-> "Rotate"]
Drop == [kind |-> "Drop"]
Move(x, y) == [kind |-> "Move", x |-> x, y |-> y]
Tick == [kind |-> "Tick"]
\* the stateChange parameter of a handler that is called without it
noStateChange == [kind |-> undefined]

\* ----------------------------------------------------------------- state

\* stateChange?.x is undefined unless the state change is a Move
hasField(stateChange, f) == f \in DOMAIN stateChange

moveAction(s, stateChange) ==
    [x |-> s.currentTetromino.x + (IF hasField(stateChange, "x") THEN stateChange.x ELSE 0),
     y |-> s.currentTetromino.y + (IF hasField(stateChange, "y") THEN stateChange.y ELSE 0),
     shape |-> s.currentTetromino.shape]

rotateAction(s, stateChange) ==
    [x |-> s.currentTetromino.x,
     y |-> s.currentTetromino.y,
     shape |-> rotateShapeClockwise(s.currentTetromino.shape)]

\* handleGameEnd, but the high score is never raised
handleGameEnd_KeepsHighScore(s) ==
    [s EXCEPT
        !.grid = addTetrominoToGrid(s.grid,
                                    s.currentTetromino.x \div Block_WIDTH,
                                    s.currentTetromino.y \div Block_HEIGHT,
                                    s.currentTetromino.shape,
                                    s.currentTetromino.color),
        !.currentTetromino = [tetrominoShapes("null") EXCEPT !.id = s.currentTetromino.id],
        !.nextTetromino = [tetrominoShapes("null") EXCEPT !.id = s.currentTetromino.id],
        !.gameEnd = TRUE]

handleGameEnd(s) ==
    [s EXCEPT
        !.grid = addTetrominoToGrid(s.grid,
                                    s.currentTetromino.x \div Block_WIDTH,
                                    s.currentTetromino.y \div Block_HEIGHT,
                                    s.currentTetromino.shape,
                                    s.currentTetromino.color),
        !.currentTetromino = [tetrominoShapes("null") EXCEPT !.id = s.currentTetromino.id],
        !.nextTetromino = [tetrominoShapes("null") EXCEPT !.id = s.currentTetromino.id],
        !.gameEnd = TRUE,
        !.highScore = IF s.score > s.highScore THEN s.score ELSE s.highScore]

\* addBombToGrid, but only the cells that share an edge with the bomb's cell
\* (and that cell) are emptied
addBombToGrid_CrossOnly(grid, x, y, color) ==
    [r \in 1..Len(grid) |->
        [c \in 1..Len(grid[r]) |->
            LET rowIndex == r - 1
                colIndex == c - 1
            IN IF Abs(rowIndex - y) + Abs(colIndex - x) <= 1
               THEN [color |-> color, value |-> 0]
               ELSE grid[r][c]]]

\* addBombToGrid, but the cells are filled as another piece's are
addBombToGrid_Fills(grid, x, y, color) ==
    [r \in 1..Len(grid) |->
        [c \in 1..Len(grid[r]) |->
            LET rowIndex == r - 1
                colIndex == c - 1
            IN IF Abs(rowIndex - y) <= 1 /\ Abs(colIndex - x) <= 1
               THEN [color |-> color, value |-> 1]
               ELSE grid[r][c]]]

addBombToGrid(grid, x, y, color) ==
    [r \in 1..Len(grid) |->
        [c \in 1..Len(grid[r]) |->
            LET rowIndex == r - 1
                colIndex == c - 1
            IN IF Abs(rowIndex - y) <= 1 /\ Abs(colIndex - x) <= 1
               THEN [color |-> color, value |-> 0]
               ELSE grid[r][c]]]

notRowFilled(row) == ~isRowFilled(row)

\* clearedGridAndPoints, but no empty row replaces a removed one
clearedGridAndPoints_NoNewRows(grid) ==
    LET clearedGrid == SelectSeq(grid, notRowFilled)
        points == Len(grid) - Len(clearedGrid)
    IN [grid |-> clearedGrid, points |-> points]

\* clearedGridAndPoints, but the new rows are added below the kept ones
clearedGridAndPoints_NewRowsBelow(grid) ==
    LET clearedGrid == SelectSeq(grid, notRowFilled)
        points == Len(grid) - Len(clearedGrid)
        newRows == [i \in 1..points |-> [c \in 1..10 |-> [color |-> undefined, value |-> 0]]]
    IN [grid |-> clearedGrid \o newRows, points |-> points]

\* clearedGridAndPoints, but the full rows are counted and not removed
clearedGridAndPoints_KeepsFullRows(grid) ==
    LET clearedGrid == SelectSeq(grid, notRowFilled)
        points == Len(grid) - Len(clearedGrid)
    IN [grid |-> grid, points |-> points]

clearedGridAndPoints(grid) ==
    LET clearedGrid == SelectSeq(grid, notRowFilled)
        points == Len(grid) - Len(clearedGrid)
        newRows == [i \in 1..points |-> [c \in 1..10 |-> [color |-> undefined, value |-> 0]]]
    IN [grid |-> newRows \o clearedGrid, points |-> points]

\* updateLevelAndTickRate, but the level is not capped
updateLevelAndTickRate_NoCap(score, newPoints) ==
    LET level == ((score + newPoints) \div 5) + 1
        tickRate == TICK_RATE_MS - (30 * level)
    IN [level |-> level, tickRate |-> tickRate]

updateLevelAndTickRate(score, newPoints) ==
    LET level == Min(((score + newPoints) \div 5) + 1, 15)
        tickRate == TICK_RATE_MS - (30 * level)
    IN [level |-> level, tickRate |-> tickRate]

\* computeGridAndUpdateState, but the next piece is generated from the id of
\* the piece that becomes current
computeGridAndUpdateState_SameNextId(y, s) ==
    LET x == s.currentTetromino.x \div Block_WIDTH
        grid == IF s.currentTetromino.type # Bomb
                THEN addTetrominoToGrid(s.grid, x, y, s.currentTetromino.shape,
                                        s.currentTetromino.color)
                ELSE addBombToGrid(s.grid, x, y, s.currentTetromino.color)
        cleared == clearedGridAndPoints(grid)
        newGrid == cleared.grid
        newPoints == cleared.points
        update == updateLevelAndTickRate(s.score, newPoints)
    IN [s EXCEPT
           !.currentTetromino = s.nextTetromino,
           !.nextTetromino = getRandomTetrimono(s.nextTetromino.id),
           !.grid = newGrid,
           !.score = s.score + newPoints,
           !.level = update.level,
           !.tickRate = update.tickRate]

\* getY(s) is passed as the value y: the handlers are pure
computeGridAndUpdateState(y, s) ==
    LET x == s.currentTetromino.x \div Block_WIDTH
        grid == IF s.currentTetromino.type # Bomb
                THEN addTetrominoToGrid(s.grid, x, y, s.currentTetromino.shape,
                                        s.currentTetromino.color)
                ELSE addBombToGrid(s.grid, x, y, s.currentTetromino.color)
        cleared == clearedGridAndPoints(grid)
        newGrid == cleared.grid
        newPoints == cleared.points
        update == updateLevelAndTickRate(s.score, newPoints)
    IN [s EXCEPT
           !.currentTetromino = s.nextTetromino,
           !.nextTetromino = getRandomTetrimono(s.nextTetromino.id + 1),
           !.grid = newGrid,
           !.score = s.score + newPoints,
           !.level = update.level,
           !.tickRate = update.tickRate]

dropTetromino(s) ==
    computeGridAndUpdateState(
        findDropPosition(s.grid, s.currentTetromino.x, s.currentTetromino.y,
                         s.currentTetromino.shape),
        s)

\* handleAddTetromino, but the piece is stamped one row too low
handleAddTetromino_OneRowLower(s) ==
    computeGridAndUpdateState(s.currentTetromino.y \div Block_HEIGHT + 1, s)

handleAddTetromino(s) ==
    computeGridAndUpdateState(s.currentTetromino.y \div Block_HEIGHT, s)

\* tick, but a falling piece is lowered two blocks at once
tick_TwoBlocks(s) ==
    IF ~isValidPosition(s.currentTetromino.x, s.currentTetromino.y,
                        s.currentTetromino.shape, s.grid)
    THEN handleGameEnd(s)
    ELSE IF ~isValidPosition(s.currentTetromino.x, s.currentTetromino.y + Block_HEIGHT,
                             s.currentTetromino.shape, s.grid)
    THEN handleAddTetromino(s)
    ELSE [s EXCEPT !.currentTetromino.y = s.currentTetromino.y + 2 * Block_HEIGHT]

\* tick, but a piece with no room below is left where it is
tick_WaitsOnFloor(s) ==
    IF ~isValidPosition(s.currentTetromino.x, s.currentTetromino.y,
                        s.currentTetromino.shape, s.grid)
    THEN handleGameEnd(s)
    ELSE IF ~isValidPosition(s.currentTetromino.x, s.currentTetromino.y + Block_HEIGHT,
                             s.currentTetromino.shape, s.grid)
    THEN s
    ELSE [s EXCEPT !.currentTetromino.y = s.currentTetromino.y + Block_HEIGHT]

tick(s) ==
    IF ~isValidPosition(s.currentTetromino.x, s.currentTetromino.y,
                        s.currentTetromino.shape, s.grid)
    THEN handleGameEnd(s)
    ELSE IF ~isValidPosition(s.currentTetromino.x, s.currentTetromino.y + Block_HEIGHT,
                             s.currentTetromino.shape, s.grid)
    THEN handleAddTetromino(s)
    ELSE [s EXCEPT !.currentTetromino.y = s.currentTetromino.y + Block_HEIGHT]

\* createTetriminoAction, but a rejected action without an x returns s
createTetriminoAction_TickOnlyOnZeroX(updatedProperties, s, stateChange) ==
    IF isValidPosition(updatedProperties.x, updatedProperties.y,
                       updatedProperties.shape, s.grid)
    THEN [s EXCEPT !.currentTetromino.x = updatedProperties.x,
                   !.currentTetromino.y = updatedProperties.y,
                   !.currentTetromino.shape = updatedProperties.shape]
    ELSE IF hasField(stateChange, "x") /\ stateChange.x = 0
    THEN tick(s)
    ELSE s

\* createTetriminoAction, but a rejected action with x = 0 returns s
createTetriminoAction_TickOnlyWithoutX(updatedProperties, s, stateChange) ==
    IF isValidPosition(updatedProperties.x, updatedProperties.y,
                       updatedProperties.shape, s.grid)
    THEN [s EXCEPT !.currentTetromino.x = updatedProperties.x,
                   !.currentTetromino.y = updatedProperties.y,
                   !.currentTetromino.shape = updatedProperties.shape]
    ELSE IF ~hasField(stateChange, "x")
    THEN tick(s)
    ELSE s

\* createTetriminoAction, but every rejected action proceeds with tick
createTetriminoAction_AlwaysTick(updatedProperties, s, stateChange) ==
    IF isValidPosition(updatedProperties.x, updatedProperties.y,
                       updatedProperties.shape, s.grid)
    THEN [s EXCEPT !.currentTetromino.x = updatedProperties.x,
                   !.currentTetromino.y = updatedProperties.y,
                   !.currentTetromino.shape = updatedProperties.shape]
    ELSE tick(s)

\* createTetriminoAction, but the action is taken without the validity test
createTetriminoAction_AlwaysAccept(updatedProperties, s, stateChange) ==
    [s EXCEPT !.currentTetromino.x = updatedProperties.x,
              !.currentTetromino.y = updatedProperties.y,
              !.currentTetromino.shape = updatedProperties.shape]

\* actionFn(s, stateChange) is passed as the value updatedProperties
createTetriminoAction(updatedProperties, s, stateChange) ==
    IF isValidPosition(updatedProperties.x, updatedProperties.y,
                       updatedProperties.shape, s.grid)
    THEN [s EXCEPT !.currentTetromino.x = updatedProperties.x,
                   !.currentTetromino.y = updatedProperties.y,
                   !.currentTetromino.shape = updatedProperties.shape]
    ELSE IF ~hasField(stateChange, "x") \/ stateChange.x = 0
    THEN tick(s)
    ELSE s

moveTetrimino(s, stateChange) == createTetriminoAction(moveAction(s, stateChange), s, stateChange)

\* reduceState calls rotateTetrimino(s): the handler gets no stateChange
rotateTetrimino(s) == createTetriminoAction(rotateAction(s, noStateChange), s, noStateChange)

\* ------------------------------------------------------------------ main

\* reduceState, but Drop is not guarded by !s.gameEnd
reduceState_DropWhenEnded(s, stateChange) ==
    IF stateChange.kind = "Drop" THEN dropTetromino(s)
    ELSE IF stateChange.kind = "Rotate" /\ ~s.gameEnd THEN rotateTetrimino(s)
    ELSE IF stateChange.kind = "Move" /\ ~s.gameEnd THEN moveTetrimino(s, stateChange)
    ELSE IF stateChange.kind = "Space" /\ s.gameEnd
    THEN [s EXCEPT !.gameEnd = FALSE,
                   !.score = 0,
                   !.grid = emptyGrid,
                   !.currentTetromino = getRandomTetrimono(1),
                   !.nextTetromino = getRandomTetrimono(2),
                   !.level = 0]
    ELSE IF s.gameEnd THEN s
    ELSE tick(s)

\* reduceState, but Space restarts from initialState
reduceState_RestartFromInitial(s, stateChange) ==
    IF stateChange.kind = "Drop" /\ ~s.gameEnd THEN dropTetromino(s)
    ELSE IF stateChange.kind = "Rotate" /\ ~s.gameEnd THEN rotateTetrimino(s)
    ELSE IF stateChange.kind = "Move" /\ ~s.gameEnd THEN moveTetrimino(s, stateChange)
    ELSE IF stateChange.kind = "Space" /\ s.gameEnd THEN initialState
    ELSE IF s.gameEnd THEN s
    ELSE tick(s)

\* reduceState, but Space also resets the high score
reduceState_RestartClearsHighScore(s, stateChange) ==
    IF stateChange.kind = "Drop" /\ ~s.gameEnd THEN dropTetromino(s)
    ELSE IF stateChange.kind = "Rotate" /\ ~s.gameEnd THEN rotateTetrimino(s)
    ELSE IF stateChange.kind = "Move" /\ ~s.gameEnd THEN moveTetrimino(s, stateChange)
    ELSE IF stateChange.kind = "Space" /\ s.gameEnd
    THEN [s EXCEPT !.gameEnd = FALSE,
                   !.score = 0,
                   !.grid = emptyGrid,
                   !.currentTetromino = getRandomTetrimono(1),
                   !.nextTetromino = getRandomTetrimono(2),
                   !.level = 0,
                   !.highScore = 0]
    ELSE IF s.gameEnd THEN s
    ELSE tick(s)

\* reduceState, but a Space while the game runs is ignored
reduceState_SpaceIgnoredInPlay(s, stateChange) ==
    IF stateChange.kind = "Drop" /\ ~s.gameEnd THEN dropTetromino(s)
    ELSE IF stateChange.kind = "Rotate" /\ ~s.gameEnd THEN rotateTetrimino(s)
    ELSE IF stateChange.kind = "Move" /\ ~s.gameEnd THEN moveTetrimino(s, stateChange)
    ELSE IF stateChange.kind = "Space" /\ s.gameEnd
    THEN [s EXCEPT !.gameEnd = FALSE,
                   !.score = 0,
                   !.grid = emptyGrid,
                   !.currentTetromino = getRandomTetrimono(1),
                   !.nextTetromino = getRandomTetrimono(2),
                   !.level = 0]
    ELSE IF s.gameEnd \/ stateChange.kind = "Space" THEN s
    ELSE tick(s)

reduceState(s, stateChange) ==
    IF stateChange.kind = "Drop" /\ ~s.gameEnd THEN dropTetromino(s)
    ELSE IF stateChange.kind = "Rotate" /\ ~s.gameEnd THEN rotateTetrimino(s)
    ELSE IF stateChange.kind = "Move" /\ ~s.gameEnd THEN moveTetrimino(s, stateChange)
    ELSE IF stateChange.kind = "Space" /\ s.gameEnd
    THEN [s EXCEPT !.gameEnd = FALSE,
                   !.score = 0,
                   !.grid = emptyGrid,
                   !.currentTetromino = getRandomTetrimono(1),
                   !.nextTetromino = getRandomTetrimono(2),
                   !.level = 0]
    ELSE IF s.gameEnd THEN s
    ELSE tick(s)

\* fromKey(keyCode, stateChange) as main wires it; "tick" is the timer tick$
fromKey(key) ==
    CASE key = "Space" -> Space
      [] key = "KeyW" -> Rotate
      [] key = "KeyQ" -> Drop
      [] key = "KeyA" -> Move(-Block_WIDTH, 0)
      [] key = "KeyD" -> Move(Block_WIDTH, 0)
      [] key = "KeyS" -> Move(0, Block_HEIGHT)
      [] key = "tick" -> Tick

\* A recorded game: five rows are cleared (level 2), the pieces pile up to the
\* top and the game ends, it is restarted, ends again with score 0 and is
\* restarted once more.
Playthrough ==
    << "KeyA", "KeyA", "KeyA", "KeyA", "tick", "tick", "tick", "tick",
       "tick", "tick", "tick", "tick", "tick", "tick", "tick", "tick",
       "tick", "tick", "tick", "tick", "tick", "tick", "KeyD", "KeyQ",
       "KeyA", "KeyA", "KeyA", "KeyQ", "KeyW", "KeyW", "KeyW", "KeyA",
       "KeyQ", "KeyA", "KeyS", "KeyS", "KeyS", "KeyS", "KeyS", "KeyS",
       "KeyS", "KeyS", "KeyS", "KeyS", "KeyS", "KeyS", "KeyS", "KeyS",
       "KeyS", "KeyS", "tick", "KeyW", "KeyW", "KeyW", "KeyD", "KeyD",
       "KeyD", "KeyS", "KeyS", "KeyS", "KeyS", "KeyS", "KeyS", "KeyS",
       "KeyS", "KeyS", "KeyS", "KeyS", "KeyS", "KeyS", "KeyS", "KeyS",
       "KeyS", "KeyS", "KeyS", "tick", "KeyQ", "KeyD", "KeyD", "KeyD",
       "KeyQ", "KeyW", "KeyD", "KeyD", "KeyD", "KeyQ", "KeyD", "KeyQ",
       "KeyA", "KeyA", "KeyA", "KeyA", "KeyQ", "KeyA", "KeyA", "KeyQ",
       "KeyQ", "KeyW", "KeyA", "KeyA", "KeyA", "KeyA", "KeyQ", "KeyD",
       "KeyD", "KeyD", "KeyQ", "KeyQ", "KeyQ", "KeyQ", "KeyS", "KeyQ",
       "KeyQ", "KeyS", "KeyQ", "KeyQ", "KeyS", "KeyQ", "KeyQ", "KeyS",
       "KeyQ", "KeyQ", "tick", "KeyQ", "Space", "KeyW", "KeyD", "KeyS",
       "tick", "KeyQ", "KeyQ", "KeyS", "KeyQ", "KeyQ", "KeyS", "KeyQ",
       "KeyQ", "KeyS", "KeyQ", "KeyQ", "KeyS", "KeyQ", "KeyQ", "KeyS",
       "tick", "Space", "tick" >>

VARIABLES
    state,            \* the accumulator of scan(reduceState, initialState)
    tickRateSubject,  \* the value of the BehaviorSubject behind tick$
    prev,             \* the accumulator before the last event
    event,            \* the last state change handled
    played,           \* how many events of Playthrough have been handled
    detour,           \* how many events since the run left Playthrough
    call,             \* a direct call of a function: its arguments and result
    timer             \* the interval inside tick$'s switchMap, where time is kept

vars == <<state, tickRateSubject, prev, event, played, detour, call, timer>>

\* no function has been called directly
noCall == [fn |-> "none"]

Init ==
    /\ state = initialState
    /\ tickRateSubject = TICK_RATE_MS - 28
    /\ prev = initialState
    /\ event = noStateChange
    /\ played = 0
    /\ detour = 0
    /\ call = noCall
    /\ timer = [due |-> TICK_RATE_MS - 28, kept |-> TICK_RATE_MS - 28]

\* The next event is the one Playthrough records here.
Recorded(key) ==
    /\ detour = 0
    /\ played < Len(Playthrough)
    /\ Playthrough[played + 1] = key

\* The events explored: Playthrough, and from each point of it every run of
\* at most MaxDetour events.
Explored(key) == Recorded(key) \/ detour < MaxDetour

\* One event through the pipeline: scan(reduceState), then the tap that
\* pushes a changed tickRate to the subject.
Scanned(key) ==
    /\ state' = reduceState(state, fromKey(key))
    /\ tickRateSubject' = IF tickRateSubject # state'.tickRate
                          THEN state'.tickRate
                          ELSE tickRateSubject
    /\ prev' = state
    /\ event' = fromKey(key)
    /\ played' = IF Recorded(key) THEN played + 1 ELSE played
    /\ detour' = IF Recorded(key) THEN 0 ELSE detour + 1
    /\ call' = call

\* An event where time is not kept: the events come in any order, whatever
\* the timer's period.
Emit(key) ==
    /\ Scanned(key)
    /\ timer' = timer

TickEvent ==
    /\ Explored("tick")
    /\ Emit("tick")

MoveEvent ==
    \E key \in {"KeyA", "KeyD", "KeyS"} :
        /\ Explored(key)
        /\ Emit(key)

RotateEvent ==
    /\ Explored("KeyW")
    /\ Emit("KeyW")

DropEvent ==
    /\ Explored("KeyQ")
    /\ Emit("KeyQ")

SpaceEvent ==
    /\ Explored("Space")
    /\ Emit("Space")

Next ==
    \/ TickEvent
    \/ MoveEvent
    \/ RotateEvent
    \/ DropEvent
    \/ SpaceEvent

Spec == Init /\ [][Next]_vars

\* ----------------------------------------------------------------- timer
\* Playthrough with time kept.  timer.due is the time in ms until the interval
\* inside switchMap fires; timer.kept is the time until the tick that was
\* pending before the last event would fire had the interval run on.

\* interval(rate) fires: the tick goes through the pipeline.  If the tap
\* pushes a new rate, switchMap unsubscribes from the interval and subscribes
\* to interval(new rate); if not, the interval runs on.  Either way the next
\* tick is one period of the subject's value away.
TimerFires ==
    /\ Recorded("tick")
    /\ Scanned("tick")
    /\ timer' = [due |-> tickRateSubject', kept |-> tickRateSubject]

\* A key is pressed before the pending tick: the interval runs on unless the
\* tap pushes a new rate, which makes switchMap start interval(new rate).
KeyPressed ==
    \E key \in {"KeyA", "KeyD", "KeyS", "KeyW", "KeyQ", "Space"} :
        /\ Recorded(key)
        /\ Scanned(key)
        /\ timer' = [due |-> IF tickRateSubject' # tickRateSubject
                              THEN tickRateSubject'
                              ELSE timer.due,
                     kept |-> timer.due]

\* Time passes, less than what is left until the pending tick.
Wait ==
    /\ TimeStep < timer.due
    /\ timer' = [due |-> timer.due - TimeStep, kept |-> timer.kept - TimeStep]
    /\ UNCHANGED <<state, tickRateSubject, prev, event, played, detour, call>>

TimerNext ==
    \/ TimerFires
    \/ KeyPressed
    \/ Wait

TimerSpec == Init /\ [][TimerNext]_vars

\* -------------------------------------------------------- function calls
\* The exported functions called directly, as the unit tests call them, on
\* arguments drawn from bounded sets; the game does not run.

Called(record) ==
    /\ call' = record
    /\ UNCHANGED <<state, tickRateSubject, prev, event, played, detour, timer>>

\* A state about to settle score + points: the bottom `points` rows lack only
\* their last cell, and an upright line piece stands in that column.
settlingState(score, points) ==
    [initialState EXCEPT
        !.score = score,
        !.grid = [r \in 1..20 |-> [c \in 1..10 |->
                    IF r > 20 - points /\ c < 10
                    THEN [color |-> "blue", value |-> 1]
                    ELSE [color |-> undefined, value |-> 0]]],
        !.currentTetromino = [getRandomTetrimono(7) EXCEPT
                                 !.shape = rotateShapeClockwise(@),
                                 !.x = 9 * Block_WIDTH,
                                 !.y = 16 * Block_HEIGHT],
        !.nextTetromino = getRandomTetrimono(8)]

CallUpdateLevelAndTickRate ==
    /\ call = noCall
    /\ \E score \in 0..MaxScore : \E newPoints \in 0..MaxPoints :
        Called([fn |-> "updateLevelAndTickRate",
                score |-> score,
                newPoints |-> newPoints,
                result |-> updateLevelAndTickRate(score, newPoints)])

CallHandleAddTetromino ==
    /\ call = noCall
    /\ \E score \in 0..MaxScore : \E points \in 0..4 :
        Called([fn |-> "handleAddTetromino",
                score |-> score,
                points |-> points,
                result |-> handleAddTetromino(settlingState(score, points))])

\* The grids the functions are called with: the bottom rows are each empty,
\* full, or partly occupied in a pattern and colour that tell the rows apart;
\* the rows above are empty.
rowKinds == {"empty", "full", "partial"}

pieceColours == <<"blue", "cyan", "purple", "orange", "red", "yellow", "green">>

testRow(kind, r) ==
    [c \in 1..10 |->
        IF kind = "full" \/ (kind = "partial" /\ (c + r) % 3 = 0)
        THEN [color |-> pieceColours[(r % 7) + 1], value |-> 1]
        ELSE [color |-> undefined, value |-> 0]]

testGrid(kinds) ==
    [r \in 1..20 |->
        IF r > 20 - Len(kinds)
        THEN testRow(kinds[r - (20 - Len(kinds))], r)
        ELSE testRow("empty", r)]

CallClearedGridAndPoints ==
    /\ call = noCall
    /\ \E kinds \in [1..MaxClearRows -> rowKinds] :
        Called([fn |-> "clearedGridAndPoints",
                rows |-> kinds,
                result |-> clearedGridAndPoints(testGrid(kinds))])

ClearedSpec == Init /\ [][CallClearedGridAndPoints]_vars

\* The shapes the functions are called with: the eight kinds in their four
\* orientations.
rotations(shape) ==
    LET once == rotateShapeClockwise(shape)
        twice == rotateShapeClockwise(once)
        thrice == rotateShapeClockwise(twice)
    IN {shape, once, twice, thrice}

testShapes ==
    UNION {rotations(tetrominoShapes(tetrominoMapping[i]).shape) : i \in 1..8}

\* The rows a call starts from: the top row, and the rows around the varied
\* rows of the grid.
startRows == {0} \union ((20 - MaxRows - 2)..19)

CallFindDropPosition ==
    /\ call = noCall
    /\ \E kinds \in [1..MaxRows -> rowKinds] : \E shape \in testShapes :
        \E col \in 0..9 : \E row \in startRows :
            /\ isValidPosition(col * Block_WIDTH, row * Block_HEIGHT, shape, testGrid(kinds))
            /\ Called([fn |-> "findDropPosition",
                       rows |-> kinds,
                       x |-> col * Block_WIDTH,
                       y |-> row * Block_HEIGHT,
                       shape |-> shape,
                       result |-> findDropPosition(testGrid(kinds), col * Block_WIDTH,
                                                   row * Block_HEIGHT, shape)])

DropSpec == Init /\ [][CallFindDropPosition]_vars

\* isValidPosition is also called with a shape without rows and with a shape
\* whose only row is empty, from one column left of the grid to one column
\* right of it, down to the row under the grid.
CallIsValidPosition ==
    /\ call = noCall
    /\ \E kinds \in [1..MaxRows -> rowKinds] :
       \E shape \in testShapes \union {<< >>, << << >> >>} :
       \E col \in (-1)..10 : \E row \in startRows \union {20} :
            Called([fn |-> "isValidPosition",
                    rows |-> kinds,
                    x |-> col * Block_WIDTH,
                    y |-> row * Block_HEIGHT,
                    shape |-> shape,
                    result |-> isValidPosition(col * Block_WIDTH, row * Block_HEIGHT,
                                               shape, testGrid(kinds))])

ValidSpec == Init /\ [][CallIsValidPosition]_vars

CallGetRandomTetrimono ==
    /\ call = noCall
    /\ \E id \in 0..MaxId :
        Called([fn |-> "getRandomTetrimono",
                id |-> id,
                result |-> getRandomTetrimono(id)])

RandomSpec == Init /\ [][CallGetRandomTetrimono]_vars

\* every matrix of 0s and 1s with at most MaxSide rows and columns
testMatrices ==
    UNION {[1..rows -> [1..cols -> {0, 1}]] : <<rows, cols>> \in (1..MaxSide) \X (1..MaxSide)}

\* rotateShapeClockwise applied four times over; results[i] is the shape
\* after i rotations
CallRotateShapeClockwise ==
    /\ call = noCall
    /\ \E shape \in testMatrices :
        LET once == rotateShapeClockwise(shape)
            twice == rotateShapeClockwise(once)
            thrice == rotateShapeClockwise(twice)
        IN Called([fn |-> "rotateShapeClockwise",
                   shape |-> shape,
                   results |-> <<once, twice, thrice, rotateShapeClockwise(thrice)>>])

\* A state of play with the piece of the given id at a column and row of a
\* grid.
rotatingState(id, col, row, kinds) ==
    [initialState EXCEPT
        !.grid = testGrid(kinds),
        !.currentTetromino = [getRandomTetrimono(id) EXCEPT
                                 !.x = col * Block_WIDTH,
                                 !.y = row * Block_HEIGHT],
        !.nextTetromino = getRandomTetrimono(id + 1)]

\* Four Rotate events in a row through reduceState; pieces[i + 1] is the
\* current piece after i events
CallReduceStateRotate ==
    /\ call = noCall
    /\ \E id \in 1..8 : \E kinds \in [1..MaxRows -> rowKinds] :
       \E col \in 0..9 : \E row \in startRows :
        LET s0 == rotatingState(id, col, row, kinds)
            s1 == reduceState(s0, Rotate)
            s2 == reduceState(s1, Rotate)
            s3 == reduceState(s2, Rotate)
            s4 == reduceState(s3, Rotate)
        IN /\ isValidPosition(s0.currentTetromino.x, s0.currentTetromino.y,
                              s0.currentTetromino.shape, s0.grid)
           /\ Called([fn |-> "reduceState",
                      rows |-> kinds,
                      pieces |-> <<s0.currentTetromino, s1.currentTetromino,
                                   s2.currentTetromino, s3.currentTetromino,
                                   s4.currentTetromino>>])

RotateNext ==
    \/ CallRotateShapeClockwise
    \/ CallReduceStateRotate

RotateSpec == Init /\ [][RotateNext]_vars

LevelNext ==
    \/ CallUpdateLevelAndTickRate
    \/ CallHandleAddTetromino

LevelSpec == Init /\ [][LevelNext]_vars

\* ---------------------------------------------------------------- claims
\* The claims are read on the last step of the run: event is the state change
\* just handled, prev the state it was applied to, state the result.

Playing(s) == ~s.gameEnd

CurrentValid(s) ==
    isValidPosition(s.currentTetromino.x, s.currentTetromino.y,
                    s.currentTetromino.shape, s.grid)

BelowValid(s) ==
    isValidPosition(s.currentTetromino.x, s.currentTetromino.y + Block_HEIGHT,
                    s.currentTetromino.shape, s.grid)

RotatedValid(s) ==
    isValidPosition(s.currentTetromino.x, s.currentTetromino.y,
                    rotateShapeClockwise(s.currentTetromino.shape), s.grid)

MovedValid(s, dx, dy) ==
    isValidPosition(s.currentTetromino.x + dx, s.currentTetromino.y + dy,
                    s.currentTetromino.shape, s.grid)

\* The grid cells <<row, column>> (counted from 0) under the occupied cells of
\* a shape whose top-left corner is at column col, row row.
Cells(shape, col, row) ==
    {<<row + i - 1, col + j - 1>> :
        <<i, j>> \in {ij \in (1..4) \X (1..4) :
                        /\ ij[1] <= Len(shape)
                        /\ ij[2] <= Len(shape[ij[1]])
                        /\ shape[ij[1]][ij[2]] = 1}}

\* grid g with the cells of the piece set to occupied, in the piece's colour
Stamped(g, piece, col, row) ==
    [r \in 1..20 |-> [c \in 1..10 |->
        IF <<r - 1, c - 1>> \in Cells(piece.shape, col, row)
        THEN [color |-> piece.color, value |-> 1]
        ELSE g[r][c]]]

\* grid g with the 3x3 neighbourhood of <<row, col>> emptied
Blasted(g, piece, col, row) ==
    [r \in 1..20 |-> [c \in 1..10 |->
        IF (r - 1) \in (row - 1)..(row + 1) /\ (c - 1) \in (col - 1)..(col + 1)
        THEN [color |-> piece.color, value |-> 0]
        ELSE g[r][c]]]

FullRows(g) == {r \in 1..Len(g) : \A c \in 1..Len(g[r]) : g[r][c].value # 0}

Max(a, b) == IF a > b THEN a ELSE b

RotateRejected == event.kind = "Rotate" /\ Playing(prev) /\ ~RotatedValid(prev)

\* C1 (as claimed): in a Playing state, a Rotate event whose clockwise-rotated
\* shape is not a valid position leaves the entire state unchanged.
C1_RotateRejectedIsNoOp == RotateRejected => state = prev

\* C1 (amended): in a Playing state, a Rotate event whose clockwise-rotated
\* shape is not a valid position at the current (x, y) is handled exactly as a
\* Tick of the same state: the piece keeps its shape and falls one block,
\* settles, or the game ends.
C1_RotateRejectedIsTick == RotateRejected => state = reduceState(prev, Tick)

\* the rejected rotation made a piece that had room below fall
C1_Witness == RotateRejected /\ CurrentValid(prev) /\ BelowValid(prev) /\ state # prev

TickOnInvalid == event.kind = "Tick" /\ Playing(prev) /\ ~CurrentValid(prev)

\* C2: in a Playing state whose current piece position is invalid, a Tick
\* yields an Ended state: gameEnd, the piece stamped onto the grid where it
\* is, current and next both the empty-shape piece with the old current id,
\* highScore = max(highScore, score), score unchanged.
C2_TickOnInvalidEndsGame ==
    TickOnInvalid =>
        /\ state.gameEnd = TRUE
        /\ state.grid = Stamped(prev.grid, prev.currentTetromino,
                                prev.currentTetromino.x \div Block_WIDTH,
                                prev.currentTetromino.y \div Block_HEIGHT)
        /\ state.currentTetromino.shape = <<>>
        /\ state.currentTetromino.id = prev.currentTetromino.id
        /\ state.nextTetromino = state.currentTetromino
        /\ state.highScore = Max(prev.highScore, prev.score)
        /\ state.score = prev.score

C2_Witness == TickOnInvalid /\ prev.score > prev.highScore

DropStamped == event.kind = "Drop" /\ Playing(prev) /\ prev.currentTetromino.type # Bomb

\* C3: in every reachable Playing state, a Drop stamps the current piece at a
\* valid position (on-screen, overlapping no occupied cell), so it overwrites
\* no occupied cell, and the resulting state is still Playing.  (Read on the
\* pieces that are stamped; a Bomb empties cells instead.)
C3_DropStampsAtValidPosition ==
    DropStamped =>
        LET piece == prev.currentTetromino
            col == piece.x \div Block_WIDTH
            row == findDropPosition(prev.grid, piece.x, piece.y, piece.shape)
        IN /\ isValidPosition(piece.x, row * Block_HEIGHT, piece.shape, prev.grid)
           /\ \A rc \in Cells(piece.shape, col, row) :
                 prev.grid[rc[1] + 1][rc[2] + 1].value = 0
           /\ Playing(state)

TickSettles ==
    event.kind = "Tick" /\ Playing(prev) /\ CurrentValid(prev) /\ ~BelowValid(prev)

\* C4: in a Playing state where the current position is valid but the one a
\* block lower is not, a Tick settles the piece at its current row: the grid
\* is the old grid with the piece stamped there (for a Bomb, its 3x3
\* neighbourhood emptied) and then the full rows removed, score grows by the
\* number of rows removed, current becomes the former next, next the piece
\* generated from the former next id + 1, and gameEnd stays false.
C4_TickSettlesAtCurrentRow ==
    TickSettles =>
        LET piece == prev.currentTetromino
            col == piece.x \div Block_WIDTH
            row == piece.y \div Block_HEIGHT
            landed == IF piece.type = Bomb
                      THEN Blasted(prev.grid, piece, col, row)
                      ELSE Stamped(prev.grid, piece, col, row)
            removed == Cardinality(FullRows(landed))
        IN /\ state.grid = clearedGridAndPoints(landed).grid
           /\ FullRows(state.grid) = {}
           /\ state.score = prev.score + removed
           /\ state.currentTetromino = prev.nextTetromino
           /\ state.nextTetromino = getRandomTetrimono(prev.nextTetromino.id + 1)
           /\ state.gameEnd = FALSE

C4_Witness == TickSettles /\ state.score > prev.score

DownBlocked ==
    /\ event.kind = "Move"
    /\ event.x = 0
    /\ Playing(prev)
    /\ ~MovedValid(prev, event.x, event.y)

\* C5: in a Playing state, a Move with dx = 0 whose target position is invalid
\* produces exactly the state that a Tick of the same state produces.
C5_BlockedDownMoveIsTick == DownBlocked => state = reduceState(prev, Tick)

C5_Witness == DownBlocked /\ state.currentTetromino.id # prev.currentTetromino.id

MoveAccepted ==
    event.kind = "Move" /\ Playing(prev) /\ MovedValid(prev, event.x, event.y)

SideBlocked ==
    /\ event.kind = "Move"
    /\ event.x # 0
    /\ Playing(prev)
    /\ ~MovedValid(prev, event.x, event.y)

TickFalls ==
    event.kind = "Tick" /\ Playing(prev) /\ CurrentValid(prev) /\ BelowValid(prev)

\* C7: in a Playing state where the current position and the one a block
\* lower are both valid, a Tick raises the current piece's y by one block
\* height and changes nothing else.
C7_TickLowersOneBlock ==
    TickFalls =>
        state = [prev EXCEPT !.currentTetromino.y = prev.currentTetromino.y + Block_HEIGHT]

C7_Witness == TickFalls /\ prev.currentTetromino.y > 0

EndedOther == prev.gameEnd /\ event.kind \in {"Tick", "Move", "Rotate", "Drop"}

\* C8: Ended absorbs every event but Space: with gameEnd set, a Tick, Move,
\* Rotate or Drop returns the state unchanged.
C8_EndedIsAbsorbing == EndedOther => state = prev

C8_Witness == EndedOther /\ event.kind = "Drop"

Restarted == prev.gameEnd /\ event.kind = "Space"

\* C9: from an Ended state, Space yields gameEnd = false, score = 0, level = 0,
\* all 200 cells empty, current the piece generated from id 1, next the piece
\* generated from id 2; highScore and tickRate are carried over.
C9_RestartResets ==
    Restarted =>
        /\ state.gameEnd = FALSE
        /\ state.score = 0
        /\ state.level = 0
        /\ Len(state.grid) = 20
        /\ \A r \in 1..20 :
              /\ Len(state.grid[r]) = 10
              /\ \A c \in 1..10 : state.grid[r][c].value = 0
        /\ state.currentTetromino = getRandomTetrimono(1)
        /\ state.nextTetromino = getRandomTetrimono(2)
        /\ state.highScore = prev.highScore
        /\ state.tickRate = prev.tickRate

C9_Witness == Restarted /\ prev.highScore > 0 /\ prev.tickRate # TICK_RATE_MS

\* C10: in every reachable state, level is an integer in 1..15.
C10_LevelInRange == state.level \in 1..15

\* C11: in every reachable state, initialState and the states right after a
\* restart included, tickRate = TICK_RATE_MS - 30 * level.
C11_TickRateFollowsLevel == state.tickRate = TICK_RATE_MS - 30 * state.level

GameEnds == Playing(prev) /\ state.gameEnd

\* C12 (as claimed): in every reachable state highScore is at least the score
\* of that state and of every earlier state, not only at game end.
C12_HighScoreAtLeastScore ==
    /\ state.highScore >= state.score
    /\ state.highScore >= prev.score

\* C12 (amended): highScore changes only on the step that ends a game, which
\* sets it to max(highScore, score); so it never decreases and in every Ended
\* state it is at least the score, while during play the score may exceed it.
C12_HighScoreRaisedAtGameEnd ==
    /\ GameEnds => state.highScore = Max(prev.highScore, prev.score)
    /\ ~GameEnds => state.highScore = prev.highScore
    /\ state.highScore >= prev.highScore
    /\ state.gameEnd => state.highScore >= state.score

\* a game ended on a score above the high score
C12_Witness == GameEnds /\ prev.score > 0 /\ state.highScore = prev.score

\* C13: in every reachable state the grid has exactly 20 rows of exactly 10
\* cells each.
C13_GridDimensions ==
    /\ Len(state.grid) = GRID_HEIGHT
    /\ \A r \in 1..Len(state.grid) : Len(state.grid[r]) = GRID_WIDTH

\* a settle removed a full row, and the grid still has its dimensions
C13_Witness ==
    /\ state.score > prev.score
    /\ Len(state.grid) = GRID_HEIGHT
    /\ \A r \in 1..GRID_HEIGHT : Len(state.grid[r]) = GRID_WIDTH

\* The events that reach tick: the timer, a Space while playing, a rejected
\* rotation and a blocked move straight down.
TickTaken ==
    /\ Playing(prev)
    /\ \/ event.kind \in {"Tick", "Space"}
       \/ RotateRejected
       \/ DownBlocked

\* The piece settled: by Drop, or by a tick with no room below.
Settled ==
    /\ Playing(prev)
    /\ \/ event.kind = "Drop"
       \/ TickTaken /\ CurrentValid(prev) /\ ~BelowValid(prev)

\* C14: every Playing state has nextTetromino.id = currentTetromino.id + 1; a
\* settle raises currentTetromino.id by exactly 1 and no other step of a game
\* changes it; a game starts with id 1; only the empty-shape pieces of an
\* Ended state share an id.
C14_PieceIdsCount ==
    /\ Playing(state) => state.nextTetromino.id = state.currentTetromino.id + 1
    /\ Settled => state.currentTetromino.id = prev.currentTetromino.id + 1
    /\ (Playing(prev) /\ ~Settled) => state.currentTetromino.id = prev.currentTetromino.id
    /\ Restarted => state.currentTetromino.id = 1
    /\ state.gameEnd => state.nextTetromino.id = state.currentTetromino.id

\* a Drop settled a piece of a game that had settled others before
C14_Witness == Settled /\ event.kind = "Drop" /\ state.currentTetromino.id > 3

\* the level the claim gives a total score
LevelOf(total) ==
    CHOOSE level \in 1..15 :
        \/ level < 15 /\ 5 * (level - 1) <= total /\ total < 5 * level
        \/ level = 15 /\ total >= 70

\* C15: for non-negative score and newPoints, updateLevelAndTickRate returns
\* level = min(floor((score + newPoints) / 5) + 1, 15), never above 15, and
\* tickRate = 500 - 30 * level, so five more points give a strictly smaller
\* tickRate until the level is 15; a settle leaves the state with the level
\* and tickRate of its new score.
C15_LevelAndTickRate ==
    /\ call.fn = "updateLevelAndTickRate" =>
          LET total == call.score + call.newPoints
              later == updateLevelAndTickRate(call.score + 5, call.newPoints)
          IN /\ call.result.level = LevelOf(total)
             /\ call.result.level <= 15
             /\ call.result.tickRate = 500 - 30 * call.result.level
             /\ later.level > call.result.level => later.tickRate < call.result.tickRate
             /\ total < 70 => later.level > call.result.level
    /\ call.fn = "handleAddTetromino" =>
          /\ call.result.score = call.score + call.points
          /\ call.result.level = LevelOf(call.result.score)
          /\ call.result.tickRate = 500 - 30 * call.result.level

\* a settle whose points crossed into the capped level
C15_Witness ==
    /\ call.fn = "handleAddTetromino"
    /\ call.score < 70
    /\ call.result.score >= 70
    /\ call.result.level = 15
    /\ call.result.tickRate = 50

\* C16: for a 20x10 grid, clearedGridAndPoints returns a grid with the same
\* number of rows: first one all-empty row per full row of the input, then
\* the rows that were not full, in their original order; points is the number
\* of full rows of the input.
C16_ClearedGridAndPoints ==
    call.fn = "clearedGridAndPoints" =>
        LET grid == testGrid(call.rows)
            full == FullRows(grid)
            kept == (1..Len(grid)) \ full
            out == call.result.grid
        IN /\ Len(out) = Len(grid)
           /\ call.result.points = Cardinality(full)
           /\ \A i \in 1..Cardinality(full) :
                 /\ Len(out[i]) = 10
                 /\ \A c \in 1..10 : out[i][c].value = 0
           /\ \A r \in kept :
                 out[Cardinality(full) + Cardinality({q \in kept : q <= r})] = grid[r]

\* two full rows were removed around a partly occupied row that was kept
C16_Witness ==
    /\ call.fn = "clearedGridAndPoints"
    /\ call.result.points >= 2
    /\ \E i \in 2..(MaxClearRows - 1) :
          /\ call.rows[i] = "partial"
          /\ call.rows[i - 1] = "full"
          /\ call.rows[i + 1] = "full"
          /\ call.result.grid[20 - MaxClearRows + i + 1] = testGrid(call.rows)[20 - MaxClearRows + i]

\* the shape of the call is valid at grid row r of the call's grid
CallValidAtRow(r) ==
    isValidPosition(call.x, r * Block_HEIGHT, call.shape, testGrid(call.rows))

\* C17: from a block-aligned start at which the shape is valid,
\* findDropPosition returns the largest row r >= y / blockHeight such that the
\* shape is valid at every row from y / blockHeight through r; on an empty
\* grid from y = 0 that is 20 minus the shape's height.
C17_FindDropPosition ==
    call.fn = "findDropPosition" =>
        LET startRow == call.y \div Block_HEIGHT
        IN /\ call.result >= startRow
           /\ \A r \in startRow..call.result : CallValidAtRow(r)
           /\ ~CallValidAtRow(call.result + 1)
           /\ (call.y = 0 /\ testGrid(call.rows) = emptyGrid) =>
                 call.result = 20 - Len(call.shape)

\* a drop from below the top row that stopped above an overhang: a lower row
\* is valid too, but not reachable
C17_Witness ==
    /\ call.fn = "findDropPosition"
    /\ call.y > 0
    /\ call.result > call.y \div Block_HEIGHT
    /\ \E r \in (call.result + 2)..19 : CallValidAtRow(r)

\* the bounding box of the call's shape is on-screen
CallOnScreen ==
    /\ call.x >= 0
    /\ call.x + Len(call.shape[1]) * Block_WIDTH <= 200
    /\ call.y + Len(call.shape) * Block_HEIGHT <= 400

\* an occupied cell of the call's shape lies on an occupied cell of its grid
CallOverlaps ==
    \E rc \in Cells(call.shape, call.x \div Block_WIDTH, call.y \div Block_HEIGHT) :
        testGrid(call.rows)[rc[1] + 1][rc[2] + 1].value # 0

\* C18: isValidPosition returns false when the shape is empty or its first
\* row is empty; otherwise it returns true if and only if the shape's
\* bounding box is on-screen (x >= 0, x + width <= 200, y + height <= 400) and
\* no occupied shape cell lies on an occupied grid cell.
C18_IsValidPosition ==
    call.fn = "isValidPosition" =>
        call.result = IF Len(call.shape) = 0 \/ Len(call.shape[1]) = 0
                      THEN FALSE
                      ELSE CallOnScreen /\ ~CallOverlaps

\* The kinds in the order the claim gives them, and the kind number it gives
\* an id: 8 divides 2^31, so ((a * seed + c) mod 2^31) mod 8 is computed from
\* the residues mod 8.
ClaimedOrder ==
    <<"cube", "line", "tee", "lShape", "reverseLShape", "zShape", "reverseZShape", "Bomb">>

ClaimedKindNumber(id) ==
    ((1103515245 % 8) * ((12345 + id) % 8) + (12345 % 8)) % 8

\* C19: getRandomTetrimono(id) selects kind number
\* ((1103515245 * (12345 + id) + 12345) mod 2^31) mod 8 from the order cube,
\* line, tee, lShape, reverseLShape, zShape, reverseZShape, Bomb and returns
\* that kind's shape, colour and spawn x with y = 0 and the given id.
C19_PieceFromId ==
    call.fn = "getRandomTetrimono" =>
        LET kind == ClaimedOrder[ClaimedKindNumber(call.id) + 1]
        IN /\ call.result.type = kind
           /\ call.result.shape = tetrominoShapes(kind).shape
           /\ call.result.color = tetrominoShapes(kind).color
           /\ call.result.x = tetrominoShapes(kind).x
           /\ call.result.y = 0
           /\ call.result.id = call.id

\* a Bomb was generated from an id past the first eight
C19_Witness ==
    /\ call.fn = "getRandomTetrimono"
    /\ call.id > 8
    /\ call.result.type = Bomb
    /\ call.result.shape = <<<<1>>>>

\* C20: at every point of a run the period of the Tick timer equals the
\* tickRate of the current state: initialState.tickRate before the first
\* event, and after each emitted state the tickRate of that state.
C20_TimerFollowsTickRate == tickRateSubject = state.tickRate

\* s after Tick events applied one after another, up to and including the
\* first that does not merely lower the piece (at most n + 1 of them)
RECURSIVE TicksThrough(_, _)
TicksThrough(s, n) ==
    LET ticked == reduceState(s, Tick)
    IN IF n = 0 \/ ticked # [s EXCEPT !.currentTetromino.y = @ + Block_HEIGHT]
       THEN ticked
       ELSE TicksThrough(ticked, n - 1)

DropInPlay == event.kind = "Drop" /\ Playing(prev)

\* C21: for every reachable Playing state, the state produced by a Drop
\* equals the state reached by applying Tick events one after another up to
\* and including the first Tick that does not merely lower the piece.
C21_DropEqualsTicks == DropInPlay => state = TicksThrough(prev, 20)

\* C22: along every run, through game end and restart too, every transition
\* that raises the level strictly lowers tickRate, and no transition raises
\* tickRate.
C22_TickRateOnlyDecreases ==
    /\ state.level > prev.level => state.tickRate < prev.tickRate
    /\ state.tickRate <= prev.tickRate

\* A Bomb settled, and the grid row it settled at.
BombSettled == Settled /\ prev.currentTetromino.type = Bomb

BombRow ==
    IF event.kind = "Drop"
    THEN findDropPosition(prev.grid, prev.currentTetromino.x, prev.currentTetromino.y,
                          prev.currentTetromino.shape)
    ELSE prev.currentTetromino.y \div Block_HEIGHT

BombColumn == prev.currentTetromino.x \div Block_WIDTH

\* the cells <<row, column>> (counted from 0) of the grid within distance 1
\* of the bomb's cell in both directions
BlastCells ==
    {rc \in (0..19) \X (0..9) :
        /\ rc[1] \in (BombRow - 1)..(BombRow + 1)
        /\ rc[2] \in (BombColumn - 1)..(BombColumn + 1)}

Occupied(g) == {rc \in (0..19) \X (0..9) : g[rc[1] + 1][rc[2] + 1].value # 0}

\* C24: when a Bomb settles, by Drop or by Tick, at column c, row r, every
\* grid cell whose row and column are both within distance 1 of (r, c) has
\* value 0 (and the bomb's colour), the bomb's own cell included, and every
\* other cell is unchanged.  No row is full then, so the grid before row
\* clearing is the grid of the new state.
C24_BombBlast ==
    BombSettled =>
        \A rc \in (0..19) \X (0..9) :
            state.grid[rc[1] + 1][rc[2] + 1] =
                IF rc \in BlastCells
                THEN [color |-> prev.currentTetromino.color, value |-> 0]
                ELSE prev.grid[rc[1] + 1][rc[2] + 1]

\* a Bomb emptied an occupied cell diagonally next to it and left an occupied
\* cell outside its neighbourhood alone
C24_Witness ==
    /\ BombSettled
    /\ \E rc \in BlastCells \cap Occupied(prev.grid) :
          rc[1] # BombRow /\ rc[2] # BombColumn
    /\ Occupied(state.grid) # {}

\* C26: in every reachable state with gameEnd = false no grid row is fully
\* occupied: a full row made by a settle is removed in the same transition.
C26_NoFullRowInPlay == Playing(state) => FullRows(state.grid) = {}

\* a settle completed a row, and the Playing state after it has no full row
C26_Witness ==
    /\ Settled
    /\ Playing(state)
    /\ state.score = prev.score + 1
    /\ FullRows(state.grid) = {}
    /\ Occupied(state.grid) # {}

\* C29: settling a Bomb, by Drop or by a tick, never changes the score, and
\* the number of occupied grid cells does not increase.
C29_BombKeepsScore ==
    BombSettled =>
        /\ state.score = prev.score
        /\ Cardinality(Occupied(state.grid)) <= Cardinality(Occupied(prev.grid))

\* a Bomb settled in a game with points and emptied occupied cells
C29_Witness ==
    /\ BombSettled
    /\ prev.score > 0
    /\ Cardinality(Occupied(state.grid)) < Cardinality(Occupied(prev.grid))

SpaceInPlay == event.kind = "Space" /\ Playing(prev)

\* C30: a Space received while the game is Playing is not ignored and does
\* not reset the game: it produces exactly the state that a Tick applied to
\* the same state produces.
C30_SpaceInPlayIsTick ==
    SpaceInPlay =>
        /\ state = reduceState(prev, Tick)
        /\ state # prev
        /\ state.score >= prev.score

\* a Space made the piece of a game under way fall one block
C30_Witness ==
    /\ SpaceInPlay
    /\ prev.score > 0
    /\ state.currentTetromino.y = prev.currentTetromino.y + Block_HEIGHT

\* the current piece of s lies on an occupied cell of its grid
CurrentOverlaps(s) ==
    \E rc \in Cells(s.currentTetromino.shape,
                    s.currentTetromino.x \div Block_WIDTH,
                    s.currentTetromino.y \div Block_HEIGHT) :
        s.grid[rc[1] + 1][rc[2] + 1].value # 0

\* the current piece became current on the last step
JustBecameCurrent ==
    Restarted \/ state.currentTetromino.id # prev.currentTetromino.id

\* C27: in every reachable Playing state the current piece is block-aligned,
\* its bounding box lies inside the grid (x >= 0, y >= 0, x + width <= 200,
\* y + height <= 400), and it overlaps an occupied cell only if it is exactly
\* as it was generated (spawn x, y = 0, unrotated) and has not moved since it
\* became current.
C27_CurrentPieceInGrid ==
    Playing(state) =>
        LET piece == state.currentTetromino
        IN /\ piece.x % Block_WIDTH = 0
           /\ piece.y % Block_HEIGHT = 0
           /\ piece.x >= 0
           /\ piece.y >= 0
           /\ piece.x + Len(piece.shape[1]) * Block_WIDTH <= 200
           /\ piece.y + Len(piece.shape) * Block_HEIGHT <= 400
           /\ CurrentOverlaps(state) =>
                 /\ piece = getRandomTetrimono(piece.id)
                 /\ JustBecameCurrent \/ piece = prev.currentTetromino

\* a piece spawned on an occupied cell, and a move to the side was rejected
C27_Witness ==
    /\ Playing(state)
    /\ CurrentOverlaps(state)
    /\ SideBlocked
    /\ state = prev

\* How many Tick events, n already counted, until the current piece of s has
\* been replaced or the game has ended; 99 when 25 are not enough.
RECURSIVE TicksNeeded(_, _)
TicksNeeded(s, n) ==
    LET ticked == reduceState(s, Tick)
    IN IF ticked.gameEnd \/ ticked.currentTetromino.id # s.currentTetromino.id
       THEN n + 1
       ELSE IF n >= 25 THEN 99 ELSE TicksNeeded(ticked, n + 1)

\* C28: from any reachable Playing state, if only Tick events follow, then
\* within at most 20 Ticks the current piece has been replaced by the next
\* piece or the game has ended.
C28_SettlesWithin20Ticks == Playing(state) => TicksNeeded(state, 0) <= 20

\* a piece that needs all 20 Ticks: one block high, at the top of an empty
\* column
C28_Witness ==
    /\ Playing(state)
    /\ state.score > 0
    /\ TicksNeeded(state, 0) = 20

\* the i-th of the four Rotate events of the call met a valid rotated
\* position, so it was accepted
RotateAccepted(i) ==
    isValidPosition(call.pieces[i].x, call.pieces[i].y,
                    rotateShapeClockwise(call.pieces[i].shape), testGrid(call.rows))

\* C25: for a non-empty rectangular shape with R rows and C columns,
\* rotateShapeClockwise returns a C x R shape with
\* result[c][R-1-r] = shape[r][c], and applying it four times returns the
\* original; four accepted Rotate events in a row restore the current piece's
\* shape and never change its x or y.
C25_RotateFourTimes ==
    /\ call.fn = "rotateShapeClockwise" =>
          LET R == Len(call.shape)
              C == Len(call.shape[1])
              result == call.results[1]
          IN /\ Len(result) = C
             /\ \A c \in 0..(C - 1) :
                   /\ Len(result[c + 1]) = R
                   /\ \A r \in 0..(R - 1) :
                         result[c + 1][(R - 1 - r) + 1] = call.shape[r + 1][c + 1]
             /\ call.results[4] = call.shape
    /\ (call.fn = "reduceState" /\ \A i \in 1..4 : RotateAccepted(i)) =>
          /\ call.pieces[5] = call.pieces[1]
          /\ \A i \in 2..5 :
                /\ call.pieces[i].x = call.pieces[1].x
                /\ call.pieces[i].y = call.pieces[1].y
                /\ call.pieces[i].shape = rotateShapeClockwise(call.pieces[i - 1].shape)

\* four Rotate events were accepted on a piece that is not square, next to
\* occupied cells
C25_Witness ==
    /\ call.fn = "reduceState"
    /\ \A i \in 1..4 : RotateAccepted(i)
    /\ Len(call.pieces[1].shape) # Len(call.pieces[1].shape[1])
    /\ call.pieces[2].shape # call.pieces[1].shape
    /\ call.pieces[5].shape = call.pieces[1].shape
    /\ call.rows[1] = "partial"

\* C23: when an emitted state changes tickRate, the Tick that was already
\* scheduled under the old period still fires at its originally scheduled
\* time; no pending tick is cancelled or postponed by the reconfiguration.
C23_PendingTickKept == state.tickRate # prev.tickRate => timer.due = timer.kept

====
